---- MODULE Spec2Model ----
(***************************************************************************)
(* Model of the detection-fusion and identity-matching code of             *)
(* FaceRecognitionService (ClassroomRecognizer).                           *)
(*                                                                         *)
(* Embeddings are integer vectors and similarities are exact integers;     *)
(* intersection-over-union values are exact fractions <<num, den>>.        *)
(***************************************************************************)
EXTENDS Integers, Sequences, FiniteSets, TLC

VARIABLES
  \* ---- FaceRecognitionService, identity matching -----------------------
  faceapi,             \* TRUE iff window.faceapi is defined
  labeledDescriptors,  \* the gallery kept by the service
  matchPc,             \* "idle" | "returned" (from findBestMatchesForFrame) | "returnedOne" (from findBestMatch)
  descriptors,         \* argument of the last findBestMatchesForFrame call
  excludedLabels,      \* content of the usedLabels argument at the time of the call
  usedLabels,          \* the caller's usedLabels set (mutated by the call)
  results,             \* value returned by findBestMatchesForFrame
  bestLabeledDescs,    \* per detection: index in labeledDescriptors of bestLabeledDesc (0 = null)
  queryDescriptor,     \* argument of the last findBestMatch call
  bestMatch,           \* value returned by findBestMatch
  \* ---- FaceRecognitionService.detectAndRecognize -----------------------
  darPc,               \* "idle" | "stage1" | "stage2" | "done"
  iouThreshold,        \* params.iouThreshold of the running call
  manualDetections,    \* manualDetections argument of the running call
  stage1Detections,    \* what the stage 1 detector delivered (<<>> if it threw)
  stage2Detections,    \* what the stage 2 detector delivered (<<>> if it threw)
  allDetections,       \* local allDetections; the returned list once darPc = "done"
  \* ---- fusion of a list with itself ------------------------------------
  selfPc,              \* "start" | "done"
  selfList,            \* the list L
  selfThreshold,       \* iouThreshold used
  selfFused,           \* removeDuplicateDetections(mergeDetections(L, L), iouThreshold)
  \* ---- getIoU -----------------------------------------------------------
  iouPc,               \* "start" | "done"
  box1,
  box2,
  iouValue,            \* getIoU(box1, box2) as <<num, den>>
  iouSwapped,          \* getIoU(box2, box1) as <<num, den>>
  \* ---- Temporal Aggregator ----------------------------------------------
  aggPc,               \* "filling" | "reported"
  presenceThreshold,   \* configuration T as <<num, den>>
  window,              \* the rolling window: per-frame sets of matched labels, oldest first
  pushedFrames,        \* every frame pushed so far, in push order (history)
  verdicts,            \* the verdict set of the last verdict computation
  \* ---- updateFaceMatcher against a running detectAndRecognize ------------
  concPc,              \* "idle" | "loading" | "stage1" | "stage2" | "done"
  givenStudents,       \* roster of the last updateFaceMatcher call (<<>> before the first)
  rosterAtRead,        \* value of givenStudents when findBestMatchesForFrame read the gallery
  galleryRead,         \* the gallery findBestMatchesForFrame read
  concMatches,         \* what findBestMatchesForFrame returned to drawFaceOverlays
  updatedWhileSuspended, \* TRUE iff updateFaceMatcher ran while the current call was suspended
  \* ---- FaceRecognitionService.loadModels --------------------------------
  useBackendApi,       \* USE_BACKEND_API of the build
  isModelsLoaded,
  loadPc,              \* per caller: "idle" | "waitForFaceApi" | "loading" | "returned" | "failed"
  urlIndex,            \* per caller: position in MODEL_URLS of the source being loaded
  tried,               \* per caller: the sources the running call has attempted, in order
  \* ---- storage service ---------------------------------------------------
  storePc,             \* "idle" | "saved" | "loadedAfterSave" | "loaded"
  storedItem,          \* localStorage item 'classroomRecognizer_students'
  savedStudents,       \* argument of the last saveStudentsToStorage call
  setItemThrew,        \* TRUE iff localStorage.setItem threw in that call
  loadedStudents,      \* value returned by the last loadStudentsFromStorage call
  \* ---- drawFaceOverlays, threshold of one detection ----------------------
  maskPc,             \* "idle" | "drawn"
  similarityThreshold,  \* params.similarityThreshold, in hundredths
  maskMode,           \* params.maskMode
  matchScore,         \* matchResult.score of the detection, in hundredths
  effectiveThreshold,  \* local effectiveThreshold, in hundredths
  color,              \* colour chosen for the box
  \* ---- InsightFaceService.loadModels -------------------------------------
  insightCapable,     \* InferenceSession is defined and checkBrowserCapabilities() holds
  insightLoaded,      \* InsightFaceService.isModelsLoaded
  detectionSession,   \* 0 for null, else the caller whose create() result it holds
  recognitionSession,  \* 0 for null, else the caller whose create() result it holds
  insightPc,          \* position of each loadModels call
  loadedBy,           \* 0, or the caller whose call assigned isModelsLoaded
  \* ---- ParameterControls.syncParamsToBackend -----------------------------
  syncPc,             \* "idle" | "awaiting" | "succeeded" | "failed"
  parentParams,       \* the params prop
  localParams,        \* the localParams state
  syncedParams,       \* localParams as seen by the running syncParamsToBackend
  isSyncing,          \* the isSyncing state
  syncStatus,         \* the syncStatus state
  onChangeCalls,      \* onChange calls made by the last syncParamsToBackend call
  onChangeArg,        \* argument of the last onChange call not yet rendered, or <<>>
  syncTimers,         \* pending 5 s timeouts
  \* ---- ImageAnalyzer -----------------------------------------------------
  submitted,          \* number of images uploaded so far; the last one is image number 'submitted'
  imageUrl,           \* 0 for null, else the image shown
  lastBase64Image,    \* 0 for null, else the image it encodes
  detectionsCount,    \* the detectionsCount state
  detectionResults,   \* the detectionResults state: [image, length]
  isProcessing,       \* the isProcessing state
  readers,            \* images whose FileReader has not fired onload yet
  requests,           \* detectFacesFromBase64 calls in flight: [id, image]
  requestsSent,       \* number of detectFacesFromBase64 calls made
  \* ---- StudentRegistry.handleImport --------------------------------------
  importPc,           \* "idle" | "reading" | "done"
  registeredIds,      \* ids of the students prop seen by handleImport
  importFile,         \* content of the chosen file
  isImporting,        \* the isImporting state
  addedIds            \* ids of the students handed to onAddStudent, in call order

matchVars  == <<faceapi, labeledDescriptors, matchPc, descriptors, excludedLabels,
                usedLabels, results, bestLabeledDescs, queryDescriptor, bestMatch>>
fusionVars == <<darPc, iouThreshold, manualDetections, stage1Detections,
                stage2Detections, allDetections>>
selfVars   == <<selfPc, selfList, selfThreshold, selfFused>>
iouVars    == <<iouPc, box1, box2, iouValue, iouSwapped>>
aggVars    == <<aggPc, presenceThreshold, window, pushedFrames, verdicts>>
concVars   == <<concPc, givenStudents, rosterAtRead, galleryRead, concMatches,
                updatedWhileSuspended>>
loadVars   == <<useBackendApi, isModelsLoaded, loadPc, urlIndex, tried>>
storeVars  == <<storePc, storedItem, savedStudents, setItemThrew, loadedStudents>>
maskVars   == <<maskPc, similarityThreshold, maskMode, matchScore, effectiveThreshold, color>>
insightVars == <<insightCapable, insightLoaded, detectionSession, recognitionSession, insightPc, loadedBy>>
syncVars   == <<syncPc, parentParams, localParams, syncedParams, isSyncing, syncStatus, onChangeCalls, onChangeArg, syncTimers>>
imageVars  == <<submitted, imageUrl, lastBase64Image, detectionsCount, detectionResults, isProcessing, readers, requests, requestsSent>>
importVars == <<importPc, registeredIds, importFile, isImporting, addedIds>>
vars       == <<matchVars, fusionVars, selfVars, iouVars, aggVars, concVars, loadVars,
                storeVars,
                maskVars,
                insightVars,
                syncVars,
                imageVars,
                importVars>>

\* what the actions of one group leave alone
notMatchVars  == <<fusionVars, selfVars, iouVars, aggVars, concVars, loadVars, storeVars,
                  maskVars,
                  insightVars,
                  syncVars,
                  imageVars,
                  importVars>>
notFusionVars == <<matchVars, selfVars, iouVars, aggVars, concVars, loadVars, storeVars,
                  maskVars,
                  insightVars,
                  syncVars,
                  imageVars,
                  importVars>>
notSelfVars   == <<matchVars, fusionVars, iouVars, aggVars, concVars, loadVars, storeVars,
                  maskVars,
                  insightVars,
                  syncVars,
                  imageVars,
                  importVars>>
notIouVars    == <<matchVars, fusionVars, selfVars, aggVars, concVars, loadVars, storeVars,
                  maskVars,
                  insightVars,
                  syncVars,
                  imageVars,
                  importVars>>
notAggVars    == <<matchVars, fusionVars, selfVars, iouVars, concVars, loadVars, storeVars,
                  maskVars,
                  insightVars,
                  syncVars,
                  imageVars,
                  importVars>>
notConcVars   == <<fusionVars, selfVars, iouVars, aggVars, loadVars, storeVars,
                  maskVars,
                  insightVars,
                  syncVars,
                  imageVars,
                  importVars>>
notLoadVars   == <<fusionVars, selfVars, iouVars, aggVars, concVars, storeVars,
                  maskVars,
                  insightVars,
                  syncVars,
                  imageVars,
                  importVars>>
notStoreVars  == <<matchVars, fusionVars, selfVars, iouVars, aggVars, concVars, loadVars,
                  maskVars,
                  insightVars,
                  syncVars,
                  imageVars,
                  importVars>>
notMaskVars   == <<matchVars, fusionVars, selfVars, iouVars, aggVars, concVars, loadVars, storeVars,
                  insightVars,
                  syncVars,
                  imageVars,
                  importVars>>
notInsightVars == <<matchVars, fusionVars, selfVars, iouVars, aggVars, concVars, loadVars, storeVars, maskVars,
                  syncVars,
                  imageVars,
                  importVars>>
notSyncVars   == <<matchVars, fusionVars, selfVars, iouVars, aggVars, concVars, loadVars, storeVars, maskVars, insightVars,
                  imageVars,
                  importVars>>
notImageVars  == <<matchVars, fusionVars, selfVars, iouVars, aggVars, concVars, loadVars, storeVars, maskVars, insightVars, syncVars,
                  importVars>>
notImportVars == <<matchVars, fusionVars, selfVars, iouVars, aggVars, concVars, loadVars, storeVars, maskVars, insightVars, syncVars, imageVars>>

----------------------------------------------------------------------------
(* Bounds *)
MaxStudents   == 2   \* students in one roster handed to updateFaceMatcher
MaxFaces      == 2   \* descriptors in one findBestMatchesForFrame call
MaxDetections == 3   \* detections of one frame, all passes together
MaxX          == 2   \* face boxes are placed at x = 0..MaxX
MaxCoord      == 1   \* getIoU rectangles: x, y in 0..MaxCoord
MaxPushes     == 6   \* frames pushed into the Temporal Aggregator in one run
MaxSize       == 2   \* getIoU rectangles: width, height in 0..MaxSize

----------------------------------------------------------------------------
(* Input domains *)

\* Embedding vectors (Float32Array): two orthogonal unit vectors, the
\* opposite of the first, and a vector that is not unit-normalized.
Embeddings == { <<1, 0>>, <<0, 1>>, <<-1, 0>>, <<2, 0>> }

\* Embeddings of detected faces: the above, and vectors of another
\* dimensionality than the gallery's (a shorter and a longer one).
QueryEmbeddings == Embeddings \cup { <<1>>, <<1, 0, 0>> }

Names == {"A", "B"}

\* Student.descriptors: none, one photo, or several photos.
DescriptorLists ==
  { <<>> } \cup { <<e>> : e \in Embeddings } \cup { << <<-1, 0>>, <<0, 1>> >> }

\* Student records, reduced to the fields updateFaceMatcher reads.
Students == [name : Names, descriptors : DescriptorLists]

SeqsUpTo(S, n) == UNION { [1..k -> S] : k \in 0..n }

Rosters == SeqsUpTo(Students, MaxStudents)

----------------------------------------------------------------------------
(* Sequence helpers *)

\* Array.prototype.splice(index, 1)
RemoveAt(s, index) ==
  [k \in 1..(Len(s) - 1) |-> IF k < index THEN s[k] ELSE s[k + 1]]

RECURSIVE IndexFrom(_, _, _)
IndexFrom(s, x, k) ==
  IF k > Len(s) THEN 0
  ELSE IF s[k] = x THEN k
  ELSE IndexFrom(s, x, k + 1)

\* Array.prototype.indexOf, 1-based; 0 stands for -1
IndexOf(s, x) == IndexFrom(s, x, 1)

----------------------------------------------------------------------------
(* Identity matching *)

RECURSIVE DotUpTo(_, _, _)
DotUpTo(descriptor1, descriptor2, n) ==
  IF n = 0 THEN 0
  ELSE DotUpTo(descriptor1, descriptor2, n - 1) + descriptor1[n] * descriptor2[n]

\* FaceRecognitionService.computeCosineSimilarity: the plain dot product
\* over the indices of descriptor1
computeCosineSimilarity(descriptor1, descriptor2) ==
  DotUpTo(descriptor1, descriptor2, Len(descriptor1))

\* descriptor2[i] is undefined for i >= descriptor2.length, so the sum is NaN
SimilarityIsNaN(descriptor1, descriptor2) == Len(descriptor2) < Len(descriptor1)

\* updateFaceMatcher: the gallery is replaced as a whole
GalleryOf(students) ==
  [k \in 1..Len(students) |->
     [label |-> students[k].name, descriptors |-> students[k].descriptors]]

\* an update that has stored only the first entry
updateFaceMatcherPartialMutant(hasFaceapi, students) ==
  IF ~hasFaceapi \/ Len(students) = 0 THEN <<>>
  ELSE SubSeq(GalleryOf(students), 1, 1)

updateFaceMatcherResult(hasFaceapi, students) ==
  IF ~hasFaceapi \/ Len(students) = 0 THEN <<>> ELSE GalleryOf(students)

AllIndicesMutant(gallery, used) == [k \in 1..Len(gallery) |-> k]

\* availableLabeledDescriptors: the gallery entries (by index) whose label
\* is not in usedLabels when the call starts
availableLabeledDescriptors(gallery, used) ==
  SelectSeq([k \in 1..Len(gallery) |-> k], LAMBDA k : gallery[k].label \notin used)

UnmatchedResultMutant(descriptor, maxSimilarity) ==
  [label |-> "unknown", score |-> maxSimilarity, descriptor |-> descriptor]

UnmatchedWithoutDescriptorMutant(descriptor, maxSimilarity) ==
  [label |-> "unknown", score |-> 0, descriptor |-> <<>>]

\* the result pushed when bestMatch is null
UnmatchedResult(descriptor, maxSimilarity) ==
  [label |-> "unknown", score |-> 0, descriptor |-> descriptor]

RECURSIVE ScanDescriptors(_, _, _, _, _)
\* inner loop over labeledDesc.descriptors; best = [maxSimilarity, bestLabeledDesc]
ScanDescriptors(descriptor, entry, refs, j, best) ==
  IF j > Len(refs) THEN best
  ELSE LET similarity == computeCosineSimilarity(descriptor, refs[j])
       IN ScanDescriptors(descriptor, entry, refs, j + 1,
            IF ~SimilarityIsNaN(descriptor, refs[j]) /\ similarity > best.maxSimilarity
            THEN [maxSimilarity |-> similarity, bestLabeledDesc |-> entry]
            ELSE best)

RECURSIVE ScanAvailable(_, _, _, _, _)
\* loop over availableLabeledDescriptors
ScanAvailable(descriptor, gallery, available, k, best) ==
  IF k > Len(available) THEN best
  ELSE ScanAvailable(descriptor, gallery, available, k + 1,
         ScanDescriptors(descriptor, available[k],
                         gallery[available[k]].descriptors, 1, best))

\* the best match of one detection among the available entries
BestMatch(descriptor, gallery, available) ==
  ScanAvailable(descriptor, gallery, available, 1,
                [maxSimilarity |-> -1, bestLabeledDesc |-> 0])

RECURSIVE MatchLoop(_, _, _, _)
\* loop over the detected faces; acc = [results, usedLabels, available, chosen]
MatchLoop(descs, gallery, i, acc) ==
  IF i > Len(descs) THEN acc
  ELSE
    LET best == BestMatch(descs[i], gallery, acc.available)
        entry == best.bestLabeledDesc
    IN MatchLoop(descs, gallery, i + 1,
         IF entry # 0
         THEN [results   |-> Append(acc.results,
                               [label |-> gallery[entry].label,
                                score |-> best.maxSimilarity,
                                descriptor |-> descs[i]]),
               usedLabels |-> acc.usedLabels \cup {gallery[entry].label},
               available  |-> LET index == IndexOf(acc.available, entry)
                              IN IF index > 0 THEN RemoveAt(acc.available, index)
                                 ELSE acc.available,
               chosen     |-> Append(acc.chosen, entry)]
         ELSE [results   |-> Append(acc.results,
                               UnmatchedResult(descs[i], best.maxSimilarity)),
               usedLabels |-> acc.usedLabels,
               available  |-> acc.available,
               chosen     |-> Append(acc.chosen, 0)])

AliasedPoolMutant(gallery, available) ==
  [k \in 1..Len(available) |-> gallery[available[k]]]

\* this.labeledDescriptors after findBestMatchesForFrame: the working pool is
\* a new array made by filter(), so the splices do not reach the gallery
labeledDescriptorsAfter(gallery, available) == gallery

FreshUsedSetMutant(descs, used, gallery) ==
  MatchLoop(descs, gallery, 1,
            [results    |-> <<>>,
             usedLabels |-> {},
             available  |-> availableLabeledDescriptors(gallery, used),
             chosen     |-> <<>>])

findBestMatchesForFrame(descs, used, gallery) ==
  MatchLoop(descs, gallery, 1,
            [results    |-> <<>>,
             usedLabels |-> used,
             available  |-> availableLabeledDescriptors(gallery, used),
             chosen     |-> <<>>])

\* findBestMatch -> findBestMatchInsightFace (isInsightFaceMode is false:
\* it is assigned only by loadModelsFromUrl): the best label over the whole
\* gallery
findBestMatch(query, gallery) ==
  IF Len(gallery) = 0 THEN [label |-> "unknown", score |-> 0]
  ELSE LET best == BestMatch(query, gallery, [k \in 1..Len(gallery) |-> k])
       IN [label |-> IF best.bestLabeledDesc = 0 THEN "unknown"
                     ELSE gallery[best.bestLabeledDesc].label,
           score |-> best.maxSimilarity]

----------------------------------------------------------------------------
(* Actions of the matching service *)

\* FaceRecognitionService.updateFaceMatcher(students, params)
UpdateFaceMatcher ==
  /\ matchPc = "idle"
  /\ \E students \in Rosters :
       labeledDescriptors' = updateFaceMatcherResult(faceapi, students)
  /\ UNCHANGED <<faceapi, matchPc, descriptors, excludedLabels, usedLabels,
                 results, bestLabeledDescs, queryDescriptor, bestMatch>>
  /\ UNCHANGED notMatchVars

\* A caller (drawFaceOverlays) calls findBestMatchesForFrame(descriptors, usedLabels)
FindBestMatchesForFrame ==
  /\ matchPc = "idle"
  /\ \E descs \in SeqsUpTo(QueryEmbeddings, MaxFaces), used \in SUBSET Names :
       LET r == findBestMatchesForFrame(descs, used, labeledDescriptors)
       IN /\ descriptors' = descs
          /\ excludedLabels' = used
          /\ usedLabels' = r.usedLabels
          /\ results' = r.results
          /\ bestLabeledDescs' = r.chosen
          /\ labeledDescriptors' = labeledDescriptorsAfter(labeledDescriptors, r.available)
  /\ matchPc' = "returned"
  /\ UNCHANGED <<faceapi, queryDescriptor, bestMatch>>
  /\ UNCHANGED notMatchVars

\* A caller calls findBestMatch(queryDescriptor)
FindBestMatch ==
  /\ matchPc = "idle"
  /\ \E query \in QueryEmbeddings :
       /\ queryDescriptor' = query
       /\ bestMatch' = findBestMatch(query, labeledDescriptors)
  /\ matchPc' = "returnedOne"
  /\ UNCHANGED <<faceapi, labeledDescriptors, descriptors, excludedLabels,
                 usedLabels, results, bestLabeledDescs>>
  /\ UNCHANGED notMatchVars

\* The caller has used the matches; its locals go out of scope
MatchesConsumed ==
  /\ matchPc \in {"returned", "returnedOne"}
  /\ matchPc' = "idle"
  /\ descriptors' = <<>>
  /\ excludedLabels' = {}
  /\ usedLabels' = {}
  /\ results' = <<>>
  /\ bestLabeledDescs' = <<>>
  /\ queryDescriptor' = <<>>
  /\ bestMatch' = [label |-> "unknown", score |-> 0]
  /\ UNCHANGED <<faceapi, labeledDescriptors>>
  /\ UNCHANGED notMatchVars

----------------------------------------------------------------------------
(* Initial values of each group of variables *)

MatchIdle ==
  /\ labeledDescriptors = <<>>
  /\ matchPc = "idle"
  /\ descriptors = <<>>
  /\ excludedLabels = {}
  /\ usedLabels = {}
  /\ results = <<>>
  /\ bestLabeledDescs = <<>>
  /\ queryDescriptor = <<>>
  /\ bestMatch = [label |-> "unknown", score |-> 0]

\* a file whose text is not JSON, or whose JSON value is not an array
InvalidFile == [kind |-> "invalid", entries |-> <<>>]

\* setDetectionResults([]): the empty list belongs to no image
NoResults == [image |-> 0, length |-> 0]

\* handleResetDefaults: the default parameters (confidence in hundredths)
DefaultParams == [minConfidence |-> 50, minFaceSize |-> 20, maskMode |-> FALSE]

\* the callers that may have a loadModels call in flight at the same time
Callers == {1, 2}

FusionIdle ==
  /\ darPc = "idle"
  /\ iouThreshold = <<0, 1>>
  /\ manualDetections = <<>>
  /\ stage1Detections = <<>>
  /\ stage2Detections = <<>>
  /\ allDetections = <<>>

SelfIdle ==
  /\ selfPc = "start"
  /\ selfList = <<>>
  /\ selfThreshold = <<0, 1>>
  /\ selfFused = <<>>

IouIdle ==
  /\ iouPc = "start"
  /\ box1 = [x |-> 0, y |-> 0, width |-> 0, height |-> 0]
  /\ box2 = [x |-> 0, y |-> 0, width |-> 0, height |-> 0]
  /\ iouValue = <<0, 1>>
  /\ iouSwapped = <<0, 1>>

MaskIdle ==
  /\ maskPc = "idle"
  /\ similarityThreshold = 60
  /\ maskMode = FALSE
  /\ matchScore = 0
  /\ effectiveThreshold = 0
  /\ color = "none"

InsightIdle ==
  /\ insightCapable = TRUE
  /\ insightLoaded = FALSE
  /\ detectionSession = 0
  /\ recognitionSession = 0
  /\ insightPc = [c \in Callers |-> "idle"]
  /\ loadedBy = 0

SyncIdle ==
  /\ syncPc = "idle"
  /\ parentParams = DefaultParams
  /\ localParams = DefaultParams
  /\ syncedParams = DefaultParams
  /\ isSyncing = FALSE
  /\ syncStatus = "idle"
  /\ onChangeCalls = 0
  /\ onChangeArg = <<>>
  /\ syncTimers = 0

ImageIdle ==
  /\ submitted = 0
  /\ imageUrl = 0
  /\ lastBase64Image = 0
  /\ detectionsCount = 0
  /\ detectionResults = NoResults
  /\ isProcessing = FALSE
  /\ readers = {}
  /\ requests = {}
  /\ requestsSent = 0

ImportIdle ==
  /\ importPc = "idle"
  /\ registeredIds = {}
  /\ importFile = InvalidFile
  /\ isImporting = FALSE
  /\ addedIds = <<>>

\* no item under the key
AbsentItem == [kind |-> "absent", value |-> <<>>]

StoreIdle ==
  /\ storePc = "idle"
  /\ storedItem = AbsentItem
  /\ savedStudents = <<>>
  /\ setItemThrew = FALSE
  /\ loadedStudents = <<>>

LoadIdle ==
  /\ useBackendApi = TRUE
  /\ isModelsLoaded = FALSE
  /\ loadPc = [c \in Callers |-> "idle"]
  /\ urlIndex = [c \in Callers |-> 0]
  /\ tried = [c \in Callers |-> <<>>]

ConcIdle ==
  /\ concPc = "idle"
  /\ givenStudents = <<>>
  /\ rosterAtRead = <<>>
  /\ galleryRead = <<>>
  /\ concMatches = <<>>
  /\ updatedWhileSuspended = FALSE

AggIdle ==
  /\ aggPc = "filling"
  /\ presenceThreshold = <<3, 5>>
  /\ window = <<>>
  /\ pushedFrames = <<>>
  /\ verdicts = {}

----------------------------------------------------------------------------
(* Specification of the identity matcher *)

InitMatch ==
  /\ faceapi \in BOOLEAN
  /\ MatchIdle
  /\ ImportIdle
  /\ ImageIdle
  /\ SyncIdle
  /\ InsightIdle
  /\ MaskIdle
  /\ StoreIdle
  /\ LoadIdle
  /\ ConcIdle
  /\ AggIdle
  /\ FusionIdle
  /\ SelfIdle
  /\ IouIdle

NextMatch ==
  \/ UpdateFaceMatcher
  \/ FindBestMatchesForFrame
  \/ FindBestMatch
  \/ MatchesConsumed

SpecMatch == InitMatch /\ [][NextMatch]_vars

----------------------------------------------------------------------------
(* Detection fusion *)

\* Face boxes of one frame: equal size, shifted along x.  Two boxes one step
\* apart have IoU 1/2, two steps apart 1/5, three steps apart 0.
FaceBoxes == { [x |-> i, y |-> 0, width |-> 3, height |-> 2] : i \in 0..MaxX }

\* detection.score, in hundredths
Confidences == {40, 90}

\* What a detector pass delivers for one face
DetectionValues == [box : FaceBoxes, score : Confidences]

\* params.iouThreshold as <<num, den>>
IouThresholds == { <<1, 10>>, <<3, 10>>, <<1, 2>> }

\* The detections of a pass as objects: id stands for object identity
Tagged(list, base, manual) ==
  [k \in 1..Len(list) |->
     [id |-> base + k, box |-> list[k].box, score |-> list[k].score,
      isManual |-> manual]]

Max(a, b) == IF a > b THEN a ELSE b
Min(a, b) == IF a < b THEN a ELSE b

getIoUNoZeroCheckMutant(b1, b2) ==
  LET x1 == Max(b1.x, b2.x)
      y1 == Max(b1.y, b2.y)
      x2 == Min(b1.x + b1.width, b2.x + b2.width)
      y2 == Min(b1.y + b1.height, b2.y + b2.height)
      intersectionArea == Max(0, x2 - x1) * Max(0, y2 - y1)
      box1Area == b1.width * b1.height
      box2Area == b2.width * b2.height
  IN <<intersectionArea, box1Area + box2Area - intersectionArea>>

getIoUUnclampedMutant(b1, b2) ==
  LET x1 == Max(b1.x, b2.x)
      y1 == Max(b1.y, b2.y)
      x2 == Min(b1.x + b1.width, b2.x + b2.width)
      y2 == Min(b1.y + b1.height, b2.y + b2.height)
      intersectionArea == (x2 - x1) * (y2 - y1)
      box1Area == b1.width * b1.height
      box2Area == b2.width * b2.height
  IN IF box1Area + box2Area - intersectionArea = 0 THEN <<0, 1>>
     ELSE <<intersectionArea, box1Area + box2Area - intersectionArea>>

\* FaceRecognitionService.getIoU; the quotient is kept as <<num, den>>
getIoU(b1, b2) ==
  LET x1 == Max(b1.x, b2.x)
      y1 == Max(b1.y, b2.y)
      x2 == Min(b1.x + b1.width, b2.x + b2.width)
      y2 == Min(b1.y + b1.height, b2.y + b2.height)
      intersectionArea == Max(0, x2 - x1) * Max(0, y2 - y1)
      box1Area == b1.width * b1.height
      box2Area == b2.width * b2.height
  IN IF box1Area + box2Area - intersectionArea = 0 THEN <<0, 1>>
     ELSE <<intersectionArea, box1Area + box2Area - intersectionArea>>

\* iou > threshold on fractions with positive denominators
IoUExceeds(iou, threshold) == iou[1] * threshold[2] > threshold[1] * iou[2]

\* the fixed 0.3 of mergeDetections
MergeOverlap == <<3, 10>>

RECURSIVE FirstOverlapping1(_, _, _)
\* inner loop of mergeDetections: first det1 with getIoU(det1, det2) > 0.3
FirstOverlapping1(detections1, det2, j) ==
  IF j > Len(detections1) THEN 0
  ELSE IF IoUExceeds(getIoU(detections1[j].box, det2.box), MergeOverlap) THEN j
  ELSE FirstOverlapping1(detections1, det2, j + 1)

Stage2ReplacesOnTieMutant(det2, det1) == det2.score >= det1.score

\* "Replace with stage 2 detection if it has higher confidence"
Stage2Replaces(det2, det1) == det2.score > det1.score

RECURSIVE MergeLoop(_, _, _, _)
MergeLoop(detections1, detections2, i, merged) ==
  IF i > Len(detections2) THEN merged
  ELSE
    LET det2 == detections2[i]
        k == FirstOverlapping1(detections1, det2, 1)
    IN MergeLoop(detections1, detections2, i + 1,
         IF k = 0 THEN Append(merged, det2)
         ELSE IF Stage2Replaces(det2, detections1[k])
              THEN LET index == IndexOf(merged, detections1[k])
                   IN IF index > 0 THEN [merged EXCEPT ![index] = det2]
                      ELSE merged
              ELSE merged)

\* FaceRecognitionService.mergeDetections
mergeDetections(detections1, detections2) ==
  MergeLoop(detections1, detections2, 1, detections1)

RECURSIVE FirstDuplicate(_, _, _, _)
\* inner loop of removeDuplicateDetections over filtered
FirstDuplicate(det, filtered, threshold, j) ==
  IF j > Len(filtered) THEN 0
  ELSE IF IoUExceeds(getIoU(det.box, filtered[j].box), threshold) THEN j
  ELSE FirstDuplicate(det, filtered, threshold, j + 1)

RECURSIVE DedupLoop(_, _, _, _)
DedupLoop(detections, threshold, i, filtered) ==
  IF i > Len(detections) THEN filtered
  ELSE
    LET j == FirstDuplicate(detections[i], filtered, threshold, 1)
    IN DedupLoop(detections, threshold, i + 1,
         IF j = 0 THEN Append(filtered, detections[i])
         ELSE IF detections[i].score > filtered[j].score
              THEN [filtered EXCEPT ![j] = detections[i]]
              ELSE filtered)

RECURSIVE DedupKeepFirstLoop(_, _, _, _)
DedupKeepFirstLoop(detections, threshold, i, filtered) ==
  IF i > Len(detections) THEN filtered
  ELSE DedupKeepFirstLoop(detections, threshold, i + 1,
         IF FirstDuplicate(detections[i], filtered, threshold, 1) = 0
         THEN Append(filtered, detections[i])
         ELSE filtered)

RECURSIVE FirstDuplicateInverted(_, _, _, _)
FirstDuplicateInverted(det, filtered, threshold, j) ==
  IF j > Len(filtered) THEN 0
  ELSE IF ~IoUExceeds(getIoU(det.box, filtered[j].box), threshold) THEN j
  ELSE FirstDuplicateInverted(det, filtered, threshold, j + 1)

RECURSIVE DedupInvertedLoop(_, _, _, _)
DedupInvertedLoop(detections, threshold, i, filtered) ==
  IF i > Len(detections) THEN filtered
  ELSE
    LET j == FirstDuplicateInverted(detections[i], filtered, threshold, 1)
    IN DedupInvertedLoop(detections, threshold, i + 1,
         IF j = 0 THEN Append(filtered, detections[i])
         ELSE IF detections[i].score > filtered[j].score
              THEN [filtered EXCEPT ![j] = detections[i]]
              ELSE filtered)

RECURSIVE DedupAlwaysReplaceLoop(_, _, _, _)
DedupAlwaysReplaceLoop(detections, threshold, i, filtered) ==
  IF i > Len(detections) THEN filtered
  ELSE
    LET j == FirstDuplicate(detections[i], filtered, threshold, 1)
    IN DedupAlwaysReplaceLoop(detections, threshold, i + 1,
         IF j = 0 THEN Append(filtered, detections[i])
         ELSE [filtered EXCEPT ![j] = detections[i]])

removeDuplicatesKeepLastMutant(detections, threshold) ==
  IF Len(detections) <= 1 THEN detections
  ELSE DedupAlwaysReplaceLoop(detections, threshold, 1, <<>>)

removeDuplicatesInvertedMutant(detections, threshold) ==
  IF Len(detections) <= 1 THEN detections
  ELSE DedupInvertedLoop(detections, threshold, 1, <<>>)

removeDuplicatesKeepFirstMutant(detections, threshold) ==
  IF Len(detections) <= 1 THEN detections
  ELSE DedupKeepFirstLoop(detections, threshold, 1, <<>>)

\* FaceRecognitionService.removeDuplicateDetections
removeDuplicateDetections(detections, threshold) ==
  IF Len(detections) <= 1 THEN detections
  ELSE DedupLoop(detections, threshold, 1, <<>>)

\* detectAndRecognize: "Add manual detections", "Remove duplicates based on IoU"
FinishFrame(detections, manual, threshold) ==
  removeDuplicateDetections(detections \o manual, threshold)

----------------------------------------------------------------------------
(* Actions of detectAndRecognize; it suspends at the two detector awaits *)

\* detectAndRecognize(videoElement, canvasElement, params, manualDetections):
\* runs up to the await of the stage 1 detector
DetectAndRecognizeCall ==
  /\ darPc = "idle"
  /\ \E threshold \in IouThresholds,
        manual \in SeqsUpTo(DetectionValues, MaxDetections) :
       /\ iouThreshold' = threshold
       /\ manualDetections' = Tagged(manual, 0, TRUE)
  /\ allDetections' = <<>>
  /\ stage1Detections' = <<>>
  /\ stage2Detections' = <<>>
  /\ darPc' = "stage1"
  /\ UNCHANGED notFusionVars

\* stage 1 delivers its detections: allDetections = [...stage1Detections]
Stage1Resolved ==
  /\ darPc = "stage1"
  /\ \E found \in SeqsUpTo(DetectionValues,
                           MaxDetections - Len(manualDetections)) :
       LET dets == Tagged(found, Len(manualDetections), FALSE)
       IN /\ stage1Detections' = dets
          /\ allDetections' = dets
  /\ darPc' = "stage2"
  /\ UNCHANGED <<iouThreshold, manualDetections, stage2Detections>>
  /\ UNCHANGED notFusionVars

\* stage 1 throws; the catch only logs
Stage1Failed ==
  /\ darPc = "stage1"
  /\ darPc' = "stage2"
  /\ UNCHANGED <<iouThreshold, manualDetections, stage1Detections,
                 stage2Detections, allDetections>>
  /\ UNCHANGED notFusionVars

\* stage 2 delivers: merge, add the manual detections, remove duplicates, return
Stage2Resolved ==
  /\ darPc = "stage2"
  /\ \E found \in SeqsUpTo(DetectionValues,
          MaxDetections - Len(manualDetections) - Len(stage1Detections)) :
       LET dets == Tagged(found, Len(manualDetections) + Len(stage1Detections), FALSE)
       IN /\ stage2Detections' = dets
          /\ allDetections' = FinishFrame(mergeDetections(allDetections, dets),
                                          manualDetections, iouThreshold)
  /\ darPc' = "done"
  /\ UNCHANGED <<iouThreshold, manualDetections, stage1Detections>>
  /\ UNCHANGED notFusionVars

\* stage 2 throws: the manual detections are added to what stage 1 gave
Stage2Failed ==
  /\ darPc = "stage2"
  /\ allDetections' = FinishFrame(allDetections, manualDetections, iouThreshold)
  /\ darPc' = "done"
  /\ UNCHANGED <<iouThreshold, manualDetections, stage1Detections, stage2Detections>>
  /\ UNCHANGED notFusionVars

\* the caller has taken the returned list
DetectAndRecognizeReturned ==
  /\ darPc = "done"
  /\ darPc' = "idle"
  /\ iouThreshold' = <<0, 1>>
  /\ manualDetections' = <<>>
  /\ stage1Detections' = <<>>
  /\ stage2Detections' = <<>>
  /\ allDetections' = <<>>
  /\ UNCHANGED notFusionVars

InitFusion ==
  /\ faceapi = TRUE
  /\ MatchIdle
  /\ ImportIdle
  /\ ImageIdle
  /\ SyncIdle
  /\ InsightIdle
  /\ MaskIdle
  /\ StoreIdle
  /\ LoadIdle
  /\ ConcIdle
  /\ AggIdle
  /\ FusionIdle
  /\ SelfIdle
  /\ IouIdle

NextFusion ==
  \/ DetectAndRecognizeCall
  \/ Stage1Resolved
  \/ Stage1Failed
  \/ Stage2Resolved
  \/ Stage2Failed
  \/ DetectAndRecognizeReturned

SpecFusion == InitFusion /\ [][NextFusion]_vars

----------------------------------------------------------------------------
(* Fusion of a list with itself *)

FuseWithItself ==
  /\ selfPc = "start"
  /\ selfFused' = removeDuplicateDetections(mergeDetections(selfList, selfList),
                                            selfThreshold)
  /\ selfPc' = "done"
  /\ UNCHANGED <<selfList, selfThreshold>>
  /\ UNCHANGED notSelfVars

InitSelf ==
  /\ faceapi = TRUE
  /\ MatchIdle
  /\ ImportIdle
  /\ ImageIdle
  /\ SyncIdle
  /\ InsightIdle
  /\ MaskIdle
  /\ StoreIdle
  /\ LoadIdle
  /\ ConcIdle
  /\ AggIdle
  /\ FusionIdle
  /\ IouIdle
  /\ selfPc = "start"
  /\ selfList \in { Tagged(l, 0, FALSE) : l \in SeqsUpTo(DetectionValues, MaxDetections) }
  /\ selfThreshold \in IouThresholds
  /\ selfFused = <<>>

NextSelf == FuseWithItself

SpecSelf == InitSelf /\ [][NextSelf]_vars

----------------------------------------------------------------------------
(* getIoU on a grid of rectangles *)

Rects == [x : 0..MaxCoord, y : 0..MaxCoord, width : 0..MaxSize, height : 0..MaxSize]

ComputeIoU ==
  /\ iouPc = "start"
  /\ iouValue' = getIoU(box1, box2)
  /\ iouSwapped' = getIoU(box2, box1)
  /\ iouPc' = "done"
  /\ UNCHANGED <<box1, box2>>
  /\ UNCHANGED notIouVars

InitIoU ==
  /\ faceapi = TRUE
  /\ MatchIdle
  /\ ImportIdle
  /\ ImageIdle
  /\ SyncIdle
  /\ InsightIdle
  /\ MaskIdle
  /\ StoreIdle
  /\ LoadIdle
  /\ ConcIdle
  /\ AggIdle
  /\ FusionIdle
  /\ SelfIdle
  /\ iouPc = "start"
  /\ box1 \in Rects
  /\ box2 \in Rects
  /\ iouValue = <<0, 1>>
  /\ iouSwapped = <<0, 1>>

NextIoU == ComputeIoU

SpecIoU == InitIoU /\ [][NextIoU]_vars

----------------------------------------------------------------------------
(* Temporal Aggregator *)

\* configuration N: the window size
WindowSize == 5

\* configuration T: the presence ratio threshold
PresenceThresholds == { <<3, 5>>, <<1, 2>> }

\* one frame's Match Result set, reduced to the labels matched in the frame
Frames == SUBSET Names

\* pushing into a full window evicts the oldest frame
PushKeepOldestMutant(w, frame) ==
  IF Len(w) = WindowSize THEN w ELSE Append(w, frame)

Push(w, frame) ==
  IF Len(w) = WindowSize THEN Append(Tail(w), frame) ELSE Append(w, frame)

\* number of frames of the window in which the label was matched
observedFrameCount(w, label) ==
  Cardinality({ k \in 1..Len(w) : label \in w[k] })

PresentAboveMutant(observed, windowFrameCount, threshold) ==
  observed * threshold[2] > threshold[1] * windowFrameCount

\* present = (observedFrameCount / windowFrameCount) >= T
Present(observed, windowFrameCount, threshold) ==
  observed * threshold[2] >= threshold[1] * windowFrameCount

\* one verdict per label; none for an empty window
ComputeVerdictsOf(w, threshold) ==
  IF Len(w) = 0 THEN {}
  ELSE { [label |-> label,
          observedFrameCount |-> observedFrameCount(w, label),
          windowFrameCount |-> Len(w),
          present |-> Present(observedFrameCount(w, label), Len(w), threshold)]
         : label \in Names }

\* the pipeline pushes the Match Result set of one more frame
PushFrame ==
  /\ Len(pushedFrames) < MaxPushes
  /\ \E frame \in Frames :
       /\ window' = Push(window, frame)
       /\ pushedFrames' = Append(pushedFrames, frame)
  /\ aggPc' = "filling"
  /\ UNCHANGED <<presenceThreshold, verdicts>>
  /\ UNCHANGED notAggVars

\* verdict computation, on demand
ComputeVerdicts ==
  /\ aggPc = "filling"
  /\ verdicts' = ComputeVerdictsOf(window, presenceThreshold)
  /\ aggPc' = "reported"
  /\ UNCHANGED <<presenceThreshold, window, pushedFrames>>
  /\ UNCHANGED notAggVars

InitAgg ==
  /\ faceapi = TRUE
  /\ MatchIdle
  /\ ImportIdle
  /\ ImageIdle
  /\ SyncIdle
  /\ InsightIdle
  /\ MaskIdle
  /\ StoreIdle
  /\ LoadIdle
  /\ ConcIdle
  /\ FusionIdle
  /\ SelfIdle
  /\ IouIdle
  /\ aggPc = "filling"
  /\ presenceThreshold \in PresenceThresholds
  /\ window = <<>>
  /\ pushedFrames = <<>>
  /\ verdicts = {}

NextAgg ==
  \/ PushFrame
  \/ ComputeVerdicts

SpecAgg == InitAgg /\ [][NextAgg]_vars

----------------------------------------------------------------------------
(* updateFaceMatcher interleaved with the awaits of detectAndRecognize *)

ConcEmbeddings == { <<1, 0>>, <<0, 1>> }

ConcStudents == [name : Names, descriptors : { <<e>> : e \in ConcEmbeddings }]

\* updateFaceMatcher(students, params), called before detectAndRecognize or
\* while it is suspended at an await; the call itself runs to completion
ConcUpdateFaceMatcher ==
  /\ concPc # "done"
  /\ \E roster \in SeqsUpTo(ConcStudents, MaxStudents) :
       /\ givenStudents' = roster
       /\ labeledDescriptors' = updateFaceMatcherResult(faceapi, roster)
  /\ updatedWhileSuspended' =
       (updatedWhileSuspended \/ concPc \in {"loading", "stage1", "stage2"})
  /\ UNCHANGED <<concPc, rosterAtRead, galleryRead, concMatches>>
  /\ UNCHANGED <<faceapi, matchPc, descriptors, excludedLabels, usedLabels,
                 results, bestLabeledDescs, queryDescriptor, bestMatch>>
  /\ UNCHANGED notConcVars

\* detectAndRecognize is called and suspends at "await this.loadModels()"
ConcCall ==
  /\ concPc = "idle"
  /\ concPc' = "loading"
  /\ UNCHANGED <<givenStudents, rosterAtRead, galleryRead, concMatches, updatedWhileSuspended>>
  /\ UNCHANGED <<matchVars, notConcVars>>

\* loadModels has resolved; suspends at the await of the stage 1 detector
ConcModelsLoaded ==
  /\ concPc = "loading"
  /\ concPc' = "stage1"
  /\ UNCHANGED <<givenStudents, rosterAtRead, galleryRead, concMatches, updatedWhileSuspended>>
  /\ UNCHANGED <<matchVars, notConcVars>>

\* stage 1 has resolved or thrown; suspends at the await of the stage 2 detector
ConcStage1Settled ==
  /\ concPc = "stage1"
  /\ concPc' = "stage2"
  /\ UNCHANGED <<givenStudents, rosterAtRead, galleryRead, concMatches, updatedWhileSuspended>>
  /\ UNCHANGED <<matchVars, notConcVars>>

\* stage 2 has resolved or thrown; the rest of detectAndRecognize runs without
\* suspending: the detections are fused and, if any is left, drawFaceOverlays
\* calls findBestMatchesForFrame(descriptors, new Set())
ConcStage2Settled ==
  /\ concPc = "stage2"
  /\ \E descs \in SeqsUpTo(ConcEmbeddings, MaxFaces) :
       IF Len(descs) > 0
       THEN /\ galleryRead' = labeledDescriptors
            /\ rosterAtRead' = givenStudents
            /\ concMatches' = findBestMatchesForFrame(descs, {}, labeledDescriptors).results
       ELSE UNCHANGED <<galleryRead, rosterAtRead, concMatches>>
  /\ concPc' = "done"
  /\ UNCHANGED <<givenStudents, updatedWhileSuspended>>
  /\ UNCHANGED <<matchVars, notConcVars>>

\* the caller has taken the returned detections; the locals of the call are gone
ConcReturned ==
  /\ concPc = "done"
  /\ concPc' = "idle"
  /\ rosterAtRead' = <<>>
  /\ galleryRead' = <<>>
  /\ concMatches' = <<>>
  /\ updatedWhileSuspended' = FALSE
  /\ UNCHANGED givenStudents
  /\ UNCHANGED <<matchVars, notConcVars>>

InitConc ==
  /\ faceapi \in BOOLEAN
  /\ MatchIdle
  /\ ImportIdle
  /\ ImageIdle
  /\ SyncIdle
  /\ InsightIdle
  /\ MaskIdle
  /\ StoreIdle
  /\ LoadIdle
  /\ AggIdle
  /\ FusionIdle
  /\ SelfIdle
  /\ IouIdle
  /\ ConcIdle

NextConc ==
  \/ ConcUpdateFaceMatcher
  \/ ConcCall
  \/ ConcModelsLoaded
  \/ ConcStage1Settled
  \/ ConcStage2Settled
  \/ ConcReturned

SpecConc == InitConc /\ [][NextConc]_vars

----------------------------------------------------------------------------
(* loadModels *)

\* the model sources, in their listed order
MODEL_URLS == << "vladmandic.github.io", "justadudewhohacks.github.io", "cdn.jsdelivr.net" >>

\* a loop that stops at the first failure
GiveUpAtFirstFailureMutant(index) == [pc |-> "failed", urlIndex |-> index]

\* the catch inside the loop: continue with the next source; after the last
\* one the loop ends and loadModels throws
AfterSourceFailed(index) ==
  IF index < Len(MODEL_URLS)
  THEN [pc |-> "loading", urlIndex |-> index + 1]
  ELSE [pc |-> "failed", urlIndex |-> index]

\* loadModels() up to its first await or return
LoadModelsCall(c) ==
  /\ loadPc[c] = "idle"
  /\ IF useBackendApi
     THEN /\ isModelsLoaded' = TRUE
          /\ loadPc' = [loadPc EXCEPT ![c] = "returned"]
     ELSE /\ loadPc' = [loadPc EXCEPT ![c] =
                          IF isModelsLoaded THEN "returned" ELSE "waitForFaceApi"]
          /\ UNCHANGED isModelsLoaded
  /\ tried' = [tried EXCEPT ![c] = <<>>]
  /\ urlIndex' = [urlIndex EXCEPT ![c] = 0]
  /\ UNCHANGED useBackendApi
  /\ UNCHANGED <<matchVars, notLoadVars>>

\* waitForFaceApi resolves; the loop starts loading the first source
WaitForFaceApiResolved(c) ==
  /\ loadPc[c] = "waitForFaceApi"
  /\ faceapi
  /\ loadPc' = [loadPc EXCEPT ![c] = "loading"]
  /\ urlIndex' = [urlIndex EXCEPT ![c] = 1]
  /\ tried' = [tried EXCEPT ![c] = <<1>>]
  /\ UNCHANGED <<useBackendApi, isModelsLoaded>>
  /\ UNCHANGED <<matchVars, notLoadVars>>

\* waitForFaceApi gives up and throws; loadModels rethrows
WaitForFaceApiRejected(c) ==
  /\ loadPc[c] = "waitForFaceApi"
  /\ ~faceapi
  /\ loadPc' = [loadPc EXCEPT ![c] = "failed"]
  /\ UNCHANGED <<useBackendApi, isModelsLoaded, urlIndex, tried>>
  /\ UNCHANGED <<matchVars, notLoadVars>>

\* loadModelsFromUrl(url) resolves
SourceLoaded(c) ==
  /\ loadPc[c] = "loading"
  /\ isModelsLoaded' = TRUE
  /\ loadPc' = [loadPc EXCEPT ![c] = "returned"]
  /\ UNCHANGED <<useBackendApi, urlIndex, tried>>
  /\ UNCHANGED <<matchVars, notLoadVars>>

\* loadModelsFromUrl(url) rejects
SourceFailed(c) ==
  /\ loadPc[c] = "loading"
  /\ LET after == AfterSourceFailed(urlIndex[c])
     IN /\ loadPc' = [loadPc EXCEPT ![c] = after.pc]
        /\ urlIndex' = [urlIndex EXCEPT ![c] = after.urlIndex]
        /\ tried' = [tried EXCEPT ![c] =
                       IF after.pc = "loading" THEN Append(@, after.urlIndex) ELSE @]
  /\ UNCHANGED <<useBackendApi, isModelsLoaded>>
  /\ UNCHANGED <<matchVars, notLoadVars>>

\* the caller has seen the outcome of its call
LoadModelsSettled(c) ==
  /\ loadPc[c] \in {"returned", "failed"}
  /\ loadPc' = [loadPc EXCEPT ![c] = "idle"]
  /\ urlIndex' = [urlIndex EXCEPT ![c] = 0]
  /\ tried' = [tried EXCEPT ![c] = <<>>]
  /\ UNCHANGED <<useBackendApi, isModelsLoaded>>
  /\ UNCHANGED <<matchVars, notLoadVars>>

InitLoad ==
  /\ faceapi \in BOOLEAN
  /\ MatchIdle
  /\ ImportIdle
  /\ ImageIdle
  /\ SyncIdle
  /\ InsightIdle
  /\ MaskIdle
  /\ StoreIdle
  /\ ConcIdle
  /\ AggIdle
  /\ FusionIdle
  /\ SelfIdle
  /\ IouIdle
  /\ useBackendApi \in BOOLEAN
  /\ isModelsLoaded = FALSE
  /\ loadPc = [c \in Callers |-> "idle"]
  /\ urlIndex = [c \in Callers |-> 0]
  /\ tried = [c \in Callers |-> <<>>]

NextLoad ==
  \E c \in Callers :
    \/ LoadModelsCall(c)
    \/ WaitForFaceApiResolved(c)
    \/ WaitForFaceApiRejected(c)
    \/ SourceLoaded(c)
    \/ SourceFailed(c)
    \/ LoadModelsSettled(c)

SpecLoad == InitLoad /\ [][NextLoad]_vars

----------------------------------------------------------------------------
(* Storage service: the roster in localStorage *)

\* Float32Array elements and JSON numbers: a finite value or NaN; JSON null
Finite(n) == [kind |-> "finite", value |-> n]
NaN       == [kind |-> "NaN", value |-> 0]
JsonNull  == [kind |-> "null", value |-> 0]

\* a typed array, as opposed to the plain arrays that JSON holds
Float32Array(elements) == [type |-> "Float32Array", elements |-> elements]

\* the students handed to saveStudentsToStorage
StoredStudents ==
  { [id |-> "1", name |-> "A", photoUrl |-> "data:a", createdAt |-> 1,
     descriptors |-> << Float32Array(<<Finite(1), Finite(0)>>) >>],
    [id |-> "2", name |-> "B", photoUrl |-> "data:b", createdAt |-> 2,
     descriptors |-> << Float32Array(<<Finite(0), Finite(-1)>>),
                        Float32Array(<<Finite(1), Finite(1)>>) >>],
    [id |-> "3", name |-> "A", photoUrl |-> "data:c", createdAt |-> 2,
     descriptors |-> <<>>],
    [id |-> "4", name |-> "B", photoUrl |-> "data:d", createdAt |-> 3,
     descriptors |-> << Float32Array(<<NaN, Finite(1)>>) >>] }

\* JSON.stringify of a number: NaN is written as null
StringifyNumber(x) == IF x.kind = "NaN" THEN JsonNull ELSE x

\* new Float32Array(array): null becomes 0
Float32OfJson(j) == IF j.kind = "null" THEN Finite(0) ELSE j

\* Array.from(desc), as JSON.stringify writes it
StringifyArray(desc) == [k \in 1..Len(desc.elements) |-> StringifyNumber(desc.elements[k])]

\* new Float32Array(desc) of a parsed array
Float32ArrayOf(desc) == Float32Array([k \in 1..Len(desc) |-> Float32OfJson(desc[k])])

\* serializeStudent followed by JSON.stringify
serializeStudent(student) ==
  [id |-> student.id, name |-> student.name, photoUrl |-> student.photoUrl,
   descriptors |-> [k \in 1..Len(student.descriptors) |-> StringifyArray(student.descriptors[k])],
   createdAt |-> student.createdAt]

\* a deserializer that keeps only the first stored descriptor
deserializeFirstDescriptorMutant(serialized) ==
  [id |-> serialized.id, name |-> serialized.name, photoUrl |-> serialized.photoUrl,
   descriptors |-> IF Len(serialized.descriptors) = 0 THEN <<>>
                   ELSE << Float32ArrayOf(serialized.descriptors[1]) >>,
   createdAt |-> serialized.createdAt]

\* deserializeStudent applied to a parsed entry
deserializeStudent(serialized) ==
  [id |-> serialized.id, name |-> serialized.name, photoUrl |-> serialized.photoUrl,
   descriptors |-> [k \in 1..Len(serialized.descriptors) |-> Float32ArrayOf(serialized.descriptors[k])],
   createdAt |-> serialized.createdAt]

\* loadStudentsFromStorage: no item or '' gives []; JSON.parse or map throwing
\* is caught and gives []
loadStudentsFromStorage(item) ==
  IF item.kind = "json" THEN [k \in 1..Len(item.value) |-> deserializeStudent(item.value[k])] ELSE <<>>

\* what another writer may leave under the key: text that is not JSON, JSON
\* that is not an array of students, the empty string
ForeignItems ==
  { [kind |-> k, value |-> <<>>] : k \in {"unparseable", "notAnArray", "emptyString"} }

\* saveStudentsToStorage(students); setItem may throw (quota exceeded, storage
\* disabled), which is caught and logged
SaveStudentsToStorage ==
  /\ storePc = "idle"
  /\ \E roster \in SeqsUpTo(StoredStudents, MaxStudents), threw \in BOOLEAN :
       /\ savedStudents' = roster
       /\ setItemThrew' = threw
       /\ storedItem' = IF threw THEN storedItem
                        ELSE [kind |-> "json", value |-> [k \in 1..Len(roster) |-> serializeStudent(roster[k])]]
  /\ storePc' = "saved"
  /\ UNCHANGED loadedStudents
  /\ UNCHANGED notStoreVars

\* loadStudentsFromStorage()
LoadStudentsFromStorage ==
  /\ storePc \in {"idle", "saved"}
  /\ loadedStudents' = loadStudentsFromStorage(storedItem)
  /\ storePc' = IF storePc = "saved" THEN "loadedAfterSave" ELSE "loaded"
  /\ UNCHANGED <<storedItem, savedStudents, setItemThrew>>
  /\ UNCHANGED notStoreVars

\* the caller has taken the loaded list
LoadConsumed ==
  /\ storePc \in {"loadedAfterSave", "loaded"}
  /\ storePc' = "idle"
  /\ savedStudents' = <<>>
  /\ setItemThrew' = FALSE
  /\ loadedStudents' = <<>>
  /\ UNCHANGED storedItem
  /\ UNCHANGED notStoreVars

\* clearStudentsFromStorage()
ClearStudentsFromStorage ==
  /\ storePc = "idle"
  /\ storedItem' = AbsentItem
  /\ UNCHANGED <<storePc, savedStudents, setItemThrew, loadedStudents>>
  /\ UNCHANGED notStoreVars

\* something else writes the key
ForeignWrite ==
  /\ storePc = "idle"
  /\ storedItem' \in ForeignItems
  /\ UNCHANGED <<storePc, savedStudents, setItemThrew, loadedStudents>>
  /\ UNCHANGED notStoreVars

InitStore ==
  /\ faceapi = TRUE
  /\ MatchIdle
  /\ ImportIdle
  /\ ImageIdle
  /\ SyncIdle
  /\ InsightIdle
  /\ MaskIdle
  /\ LoadIdle
  /\ ConcIdle
  /\ AggIdle
  /\ FusionIdle
  /\ SelfIdle
  /\ IouIdle
  /\ StoreIdle

NextStore ==
  \/ SaveStudentsToStorage
  \/ LoadStudentsFromStorage
  \/ LoadConsumed
  \/ ClearStudentsFromStorage
  \/ ForeignWrite

SpecStore == InitStore /\ [][NextStore]_vars

----------------------------------------------------------------------------
(* drawFaceOverlays: the similarity threshold applied to one detection.    *)
(* Thresholds and scores are in hundredths.                                 *)

ThresholdStep == 5
ConfiguredThresholds == { ThresholdStep * k : k \in 0..20 }
MatchScores == { ThresholdStep * k : k \in -20..20 }

\* let effectiveThreshold = params.similarityThreshold;
\* if (params.maskMode) effectiveThreshold = Math.max(0.4, effectiveThreshold - 0.1);
effectiveThresholdOf(threshold, mode) ==
  IF mode THEN Max(40, threshold - 10) ELSE threshold

\* green at or above the threshold, yellow at or above 0.8 of it, red below
colorOf(score, effective) ==
  IF score >= effective THEN "green"
  ELSE IF 10 * score >= 8 * effective THEN "yellow"
  ELSE "red"

\* the body of the forEach of drawFaceOverlays for one detection
DrawFaceOverlay ==
  /\ maskPc = "idle"
  /\ \E threshold \in ConfiguredThresholds, mode \in BOOLEAN, score \in MatchScores :
       /\ similarityThreshold' = threshold
       /\ maskMode' = mode
       /\ matchScore' = score
       /\ effectiveThreshold' = effectiveThresholdOf(threshold, mode)
       /\ color' = colorOf(score, effectiveThresholdOf(threshold, mode))
  /\ maskPc' = "drawn"
  /\ UNCHANGED notMaskVars

\* the next frame is drawn with whatever parameters are then configured
OverlayShown ==
  /\ maskPc = "drawn"
  /\ maskPc' = "idle"
  /\ UNCHANGED <<similarityThreshold, maskMode, matchScore, effectiveThreshold, color>>
  /\ UNCHANGED notMaskVars

InitMask ==
  /\ faceapi = TRUE
  /\ MatchIdle
  /\ ImportIdle
  /\ ImageIdle
  /\ SyncIdle
  /\ InsightIdle
  /\ StoreIdle
  /\ LoadIdle
  /\ ConcIdle
  /\ AggIdle
  /\ FusionIdle
  /\ SelfIdle
  /\ IouIdle
  /\ MaskIdle

NextMask ==
  \/ DrawFaceOverlay
  \/ OverlayShown

SpecMask == InitMask /\ [][NextMask]_vars

----------------------------------------------------------------------------
(* InsightFaceService.loadModels, called by several callers at once.        *)
(* A call is at "det1"/"det2" while it awaits the first/second              *)
(* InferenceSession.create of the detection model and at "rec1"/"rec2"      *)
(* while it awaits those of the recognition model.                          *)

SkipFailedDetectionMutant(step) ==
  CASE step = "det1" -> "det2"
    [] step = "det2" -> "rec1"
    [] step = "rec1" -> "rec2"
    [] step = "rec2" -> "rejected"

\* where a call goes when the create() it awaits rejects: the inner catch
\* tries once more, the second failure is rethrown
AfterCreateRejected(step) ==
  CASE step = "det1" -> "det2"
    [] step = "det2" -> "rejected"
    [] step = "rec1" -> "rec2"
    [] step = "rec2" -> "rejected"

\* loadModels() up to its first await, or to its return or throw
InsightLoadModelsCall(c) ==
  /\ insightPc[c] = "idle"
  /\ insightPc' = [insightPc EXCEPT ![c] =
                     IF insightLoaded THEN "resolved"
                     ELSE IF ~insightCapable THEN "rejected"
                     ELSE "det1"]
  /\ UNCHANGED <<insightCapable, insightLoaded, detectionSession,
                 recognitionSession, loadedBy>>
  /\ UNCHANGED notInsightVars

\* this.detectionSession = await InferenceSession.create(...scrfd...)
DetectionSessionCreated(c) ==
  /\ insightPc[c] \in {"det1", "det2"}
  /\ detectionSession' = c
  /\ insightPc' = [insightPc EXCEPT ![c] = "rec1"]
  /\ UNCHANGED <<insightCapable, insightLoaded, recognitionSession, loadedBy>>
  /\ UNCHANGED notInsightVars

\* this.recognitionSession = await InferenceSession.create(...glintr100...);
\* this.isModelsLoaded = true
RecognitionSessionCreated(c) ==
  /\ insightPc[c] \in {"rec1", "rec2"}
  /\ recognitionSession' = c
  /\ insightLoaded' = TRUE
  /\ loadedBy' = c
  /\ insightPc' = [insightPc EXCEPT ![c] = "resolved"]
  /\ UNCHANGED <<insightCapable, detectionSession>>
  /\ UNCHANGED notInsightVars

\* the awaited InferenceSession.create rejects
CreateRejected(c) ==
  /\ insightPc[c] \in {"det1", "det2", "rec1", "rec2"}
  /\ insightPc' = [insightPc EXCEPT ![c] = AfterCreateRejected(insightPc[c])]
  /\ UNCHANGED <<insightCapable, insightLoaded, detectionSession,
                 recognitionSession, loadedBy>>
  /\ UNCHANGED notInsightVars

\* the caller has seen the promise settle
InsightLoadModelsSettled(c) ==
  /\ insightPc[c] \in {"resolved", "rejected"}
  /\ insightPc' = [insightPc EXCEPT ![c] = "idle"]
  /\ UNCHANGED <<insightCapable, insightLoaded, detectionSession,
                 recognitionSession, loadedBy>>
  /\ UNCHANGED notInsightVars

InitInsight ==
  /\ faceapi = TRUE
  /\ MatchIdle
  /\ ImportIdle
  /\ ImageIdle
  /\ SyncIdle
  /\ MaskIdle
  /\ StoreIdle
  /\ LoadIdle
  /\ ConcIdle
  /\ AggIdle
  /\ FusionIdle
  /\ SelfIdle
  /\ IouIdle
  /\ insightCapable \in BOOLEAN
  /\ insightLoaded = FALSE
  /\ detectionSession = 0
  /\ recognitionSession = 0
  /\ insightPc = [c \in Callers |-> "idle"]
  /\ loadedBy = 0

NextInsight ==
  \E c \in Callers :
    \/ InsightLoadModelsCall(c)
    \/ DetectionSessionCreated(c)
    \/ RecognitionSessionCreated(c)
    \/ CreateRejected(c)
    \/ InsightLoadModelsSettled(c)

SpecInsight == InitInsight /\ [][NextInsight]_vars

----------------------------------------------------------------------------
(* ParameterControls: editing the local parameters and syncing them.        *)

MaxTimers == 2

MinConfidences == {30, 50}
MinFaceSizes == {20, 40}
ParamValues ==
  [minConfidence : MinConfidences, minFaceSize : MinFaceSizes, maskMode : BOOLEAN]

\* backendParams: the fields of the local parameters that differ from the prop
backendParams(local, params) ==
  { f \in {"minConfidence", "minFaceSize"} : local[f] # params[f] }

onChangeInFinallyMutant(outcome, calls) == calls + 1

\* onChange(localParams) is called on the two success paths only
onChangeCallsAfter(outcome, calls) ==
  IF outcome = "succeeded" THEN calls + 1 ELSE calls

\* handleParamChange(paramName, value) of a slider
HandleParamChange ==
  /\ \/ \E v \in MinConfidences : localParams' = [localParams EXCEPT !.minConfidence = v]
     \/ \E v \in MinFaceSizes : localParams' = [localParams EXCEPT !.minFaceSize = v]
  /\ localParams' # localParams
  /\ UNCHANGED <<syncPc, parentParams, syncedParams, isSyncing, syncStatus,
                 onChangeCalls, onChangeArg, syncTimers>>
  /\ UNCHANGED notSyncVars

\* handleResetDefaults
HandleResetDefaults ==
  /\ localParams # DefaultParams
  /\ localParams' = DefaultParams
  /\ UNCHANGED <<syncPc, parentParams, syncedParams, isSyncing, syncStatus,
                 onChangeCalls, onChangeArg, syncTimers>>
  /\ UNCHANGED notSyncVars

\* click on the sync button (disabled while isSyncing) with changed backend
\* parameters: syncParamsToBackend runs up to await setDetectionParams(...)
SyncParamsToBackendCall ==
  /\ ~isSyncing
  /\ syncPc # "awaiting"
  /\ onChangeArg = <<>>
  /\ syncTimers < MaxTimers
  /\ backendParams(localParams, parentParams) # {}
  /\ isSyncing' = TRUE
  /\ syncStatus' = "idle"
  /\ syncedParams' = localParams
  /\ onChangeCalls' = 0
  /\ syncPc' = "awaiting"
  /\ UNCHANGED <<parentParams, localParams, onChangeArg, syncTimers>>
  /\ UNCHANGED notSyncVars

\* click on the sync button with no changed backend parameter: the function
\* runs to its end without suspending
SyncParamsUnchanged ==
  /\ ~isSyncing
  /\ syncPc # "awaiting"
  /\ onChangeArg = <<>>
  /\ syncTimers < MaxTimers
  /\ backendParams(localParams, parentParams) = {}
  /\ syncedParams' = localParams
  /\ syncStatus' = "success"
  /\ onChangeCalls' = onChangeCallsAfter("succeeded", 0)
  /\ onChangeArg' = localParams
  /\ isSyncing' = FALSE
  /\ syncTimers' = syncTimers + 1
  /\ syncPc' = "succeeded"
  /\ UNCHANGED <<parentParams, localParams>>
  /\ UNCHANGED notSyncVars

\* setDetectionParams resolves: success status, onChange(localParams), finally
SetDetectionParamsResolved ==
  /\ syncPc = "awaiting"
  /\ syncStatus' = "success"
  /\ onChangeCalls' = onChangeCallsAfter("succeeded", onChangeCalls)
  /\ onChangeArg' = syncedParams
  /\ isSyncing' = FALSE
  /\ syncTimers' = syncTimers + 1
  /\ syncPc' = "succeeded"
  /\ UNCHANGED <<parentParams, localParams, syncedParams>>
  /\ UNCHANGED notSyncVars

\* setDetectionParams rejects: catch, finally
SetDetectionParamsRejected ==
  /\ syncPc = "awaiting"
  /\ syncStatus' = "error"
  /\ onChangeCalls' = onChangeCallsAfter("failed", onChangeCalls)
  /\ isSyncing' = FALSE
  /\ syncTimers' = syncTimers + 1
  /\ syncPc' = "failed"
  /\ UNCHANGED <<parentParams, localParams, syncedParams, onChangeArg>>
  /\ UNCHANGED notSyncVars

\* the parent renders with the parameters it was given; the effect on
\* [params] copies them into localParams
ParamsPropUpdated ==
  /\ onChangeArg # <<>>
  /\ parentParams' = onChangeArg
  /\ localParams' = onChangeArg
  /\ onChangeArg' = <<>>
  /\ UNCHANGED <<syncPc, syncedParams, isSyncing, syncStatus, onChangeCalls, syncTimers>>
  /\ UNCHANGED notSyncVars

\* a 5 s timeout set by a finally block fires
SyncTimerFired ==
  /\ syncTimers > 0
  /\ syncTimers' = syncTimers - 1
  /\ syncStatus' = "idle"
  /\ UNCHANGED <<syncPc, parentParams, localParams, syncedParams, isSyncing,
                 onChangeCalls, onChangeArg>>
  /\ UNCHANGED notSyncVars

InitSync ==
  /\ faceapi = TRUE
  /\ MatchIdle
  /\ ImportIdle
  /\ ImageIdle
  /\ InsightIdle
  /\ MaskIdle
  /\ StoreIdle
  /\ LoadIdle
  /\ ConcIdle
  /\ AggIdle
  /\ FusionIdle
  /\ SelfIdle
  /\ IouIdle
  /\ syncPc = "idle"
  /\ parentParams \in ParamValues
  /\ localParams = parentParams
  /\ syncedParams = parentParams
  /\ isSyncing = FALSE
  /\ syncStatus = "idle"
  /\ onChangeCalls = 0
  /\ onChangeArg = <<>>
  /\ syncTimers = 0

NextSync ==
  \/ HandleParamChange
  \/ HandleResetDefaults
  \/ SyncParamsToBackendCall
  \/ SyncParamsUnchanged
  \/ SetDetectionParamsResolved
  \/ SetDetectionParamsRejected
  \/ ParamsPropUpdated
  \/ SyncTimerFired

SpecSync == InitSync /\ [][NextSync]_vars

----------------------------------------------------------------------------
(* ImageAnalyzer: uploads, re-detections and the responses of the backend.  *)
(* Images are numbered in the order of their upload.                        *)

MaxImages == 2     \* images uploaded
MaxRequests == 3   \* detectFacesFromBase64 calls made
MaxFound == 2      \* faces in one response

\* processImageDetection(base64Image) up to await detectFacesFromBase64(...)
RequestsAfterSend(image) == requests \cup { [id |-> requestsSent + 1, image |-> image] }

\* handleImageUpload: the file input is rendered only while imageUrl is null
HandleImageUpload ==
  /\ imageUrl = 0
  /\ submitted < MaxImages
  /\ submitted' = submitted + 1
  /\ imageUrl' = submitted + 1
  /\ detectionsCount' = 0
  /\ lastBase64Image' = 0
  /\ readers' = readers \cup {submitted + 1}
  /\ UNCHANGED <<detectionResults, isProcessing, requests, requestsSent>>
  /\ UNCHANGED notImageVars

\* reader.onload: setLastBase64Image, then processImageDetection up to its await
ReaderLoaded ==
  /\ requestsSent < MaxRequests
  /\ \E image \in readers :
       /\ readers' = readers \ {image}
       /\ lastBase64Image' = image
       /\ requests' = RequestsAfterSend(image)
  /\ isProcessing' = TRUE
  /\ requestsSent' = requestsSent + 1
  /\ UNCHANGED <<submitted, imageUrl, detectionsCount, detectionResults>>
  /\ UNCHANGED notImageVars

\* handleReDetect: the button is rendered with an image and is disabled
\* while isProcessing or without lastBase64Image
HandleReDetect ==
  /\ imageUrl # 0
  /\ ~isProcessing
  /\ lastBase64Image # 0
  /\ requestsSent < MaxRequests
  /\ requests' = RequestsAfterSend(lastBase64Image)
  /\ isProcessing' = TRUE
  /\ requestsSent' = requestsSent + 1
  /\ UNCHANGED <<submitted, imageUrl, lastBase64Image, detectionsCount,
                 detectionResults, readers>>
  /\ UNCHANGED notImageVars

\* detectFacesFromBase64 resolves with success: true
DetectionSucceeded ==
  /\ \E request \in requests, found \in 0..MaxFound :
       /\ requests' = requests \ {request}
       /\ detectionsCount' = found
       /\ detectionResults' = [image |-> request.image, length |-> found]
  /\ isProcessing' = FALSE
  /\ UNCHANGED <<submitted, imageUrl, lastBase64Image, readers, requestsSent>>
  /\ UNCHANGED notImageVars

\* detectFacesFromBase64 resolves with success: false, or rejects
DetectionFailed ==
  /\ \E request \in requests : requests' = requests \ {request}
  /\ detectionsCount' = 0
  /\ detectionResults' = NoResults
  /\ isProcessing' = FALSE
  /\ UNCHANGED <<submitted, imageUrl, lastBase64Image, readers, requestsSent>>
  /\ UNCHANGED notImageVars

\* the re-upload button
ReUploadClicked ==
  /\ imageUrl # 0
  /\ imageUrl' = 0
  /\ detectionsCount' = 0
  /\ lastBase64Image' = 0
  /\ UNCHANGED <<submitted, detectionResults, isProcessing, readers, requests,
                 requestsSent>>
  /\ UNCHANGED notImageVars

InitImage ==
  /\ faceapi = TRUE
  /\ MatchIdle
  /\ ImportIdle
  /\ SyncIdle
  /\ InsightIdle
  /\ MaskIdle
  /\ StoreIdle
  /\ LoadIdle
  /\ ConcIdle
  /\ AggIdle
  /\ FusionIdle
  /\ SelfIdle
  /\ IouIdle
  /\ ImageIdle

NextImage ==
  \/ HandleImageUpload
  \/ ReaderLoaded
  \/ HandleReDetect
  \/ DetectionSucceeded
  \/ DetectionFailed
  \/ ReUploadClicked

SpecImage == InitImage /\ [][NextImage]_vars

----------------------------------------------------------------------------
(* StudentRegistry.handleImport: the onAddStudent calls made for one file.  *)

MaxIds == 2            \* different student ids
MaxFileStudents == 3   \* entries in one imported file

StudentIds == 1..MaxIds

\* an entry of the imported array: its id, and whether its descriptors field
\* is an array of arrays (student.descriptors.map throws otherwise)
FileEntries == [id : StudentIds, wellFormed : BOOLEAN]

ImportFiles ==
  {InvalidFile} \cup
  { [kind |-> "array", entries |-> e] : e \in SeqsUpTo(FileEntries, MaxFileStudents) }

\* validStudents.forEach: onAddStudent(student) unless
\* students.findIndex(s => s.id === student.id) >= 0
idsAdded(entries, registered) ==
  LET toAdd == SelectSeq(entries, LAMBDA entry : entry.id \notin registered)
  IN [k \in 1..Len(toAdd) |-> toAdd[k].id]

\* the body of reader.onload: JSON.parse, Array.isArray, map, forEach
importStudents(file, registered) ==
  IF file.kind # "array" THEN <<>>
  ELSE IF \E k \in 1..Len(file.entries) : ~file.entries[k].wellFormed THEN <<>>
  ELSE idsAdded(file.entries, registered)

\* handleImport: a file is chosen and handed to the FileReader
HandleImport ==
  /\ importPc = "idle"
  /\ \E file \in ImportFiles : importFile' = file
  /\ isImporting' = TRUE
  /\ addedIds' = <<>>
  /\ importPc' = "reading"
  /\ UNCHANGED registeredIds
  /\ UNCHANGED notImportVars

\* reader.onload
ImportReaderLoaded ==
  /\ importPc = "reading"
  /\ addedIds' = importStudents(importFile, registeredIds)
  /\ isImporting' = FALSE
  /\ importPc' = "done"
  /\ UNCHANGED <<registeredIds, importFile>>
  /\ UNCHANGED notImportVars

\* the alert is dismissed
ImportDone ==
  /\ importPc = "done"
  /\ importPc' = "idle"
  /\ importFile' = InvalidFile
  /\ addedIds' = <<>>
  /\ UNCHANGED <<registeredIds, isImporting>>
  /\ UNCHANGED notImportVars

InitImport ==
  /\ faceapi = TRUE
  /\ MatchIdle
  /\ ImageIdle
  /\ SyncIdle
  /\ InsightIdle
  /\ MaskIdle
  /\ StoreIdle
  /\ LoadIdle
  /\ ConcIdle
  /\ AggIdle
  /\ FusionIdle
  /\ SelfIdle
  /\ IouIdle
  /\ importPc = "idle"
  /\ registeredIds \in SUBSET StudentIds
  /\ importFile = InvalidFile
  /\ isImporting = FALSE
  /\ addedIds = <<>>

NextImport ==
  \/ HandleImport
  \/ ImportReaderLoaded
  \/ ImportDone

SpecImport == InitImport /\ [][NextImport]_vars

----------------------------------------------------------------------------
(* Properties of the identity matcher (SpecMatch) *)

Range(s) == { s[k] : k \in 1..Len(s) }

Returned == matchPc = "returned"

\* Gallery entries with at least one reference embedding that are not
\* excluded by the caller and were not taken by a detection before the i-th
UnclaimedBefore(i) ==
  { k \in 1..Len(labeledDescriptors) :
      /\ Len(labeledDescriptors[k].descriptors) > 0
      /\ labeledDescriptors[k].label \notin excludedLabels
      /\ \A j \in 1..(i - 1) : bestLabeledDescs[j] # k }

SetMax(S) == CHOOSE m \in S : \A n \in S : m >= n

\* maximum similarity of a detection over the reference embeddings of entry k
EntrySimilarity(descriptor, k) ==
  SetMax({ computeCosineSimilarity(descriptor, ref) :
             ref \in Range(labeledDescriptors[k].descriptors) })

\* C1: the result of findBestMatchesForFrame never holds two entries with the
\* same label, except the sentinel 'unknown'.
C1_OneToOneLabels ==
  Returned =>
    \A i, j \in 1..Len(results) :
      (i # j /\ results[i].label = results[j].label) => results[i].label = "unknown"

\* C2: with an empty gallery every detection of a non-empty list is returned
\* once, labelled 'unknown' with score 0.
C2_EmptyGallery ==
  (Returned /\ labeledDescriptors = <<>> /\ descriptors # <<>>) =>
    /\ Len(results) = Len(descriptors)
    /\ \A i \in 1..Len(results) :
         /\ results[i].label = "unknown"
         /\ results[i].score = 0
         /\ results[i].descriptor = descriptors[i]

C2_Witness ==
  /\ Returned
  /\ labeledDescriptors = <<>>
  /\ Len(descriptors) = 2
  /\ Len(results) = 2

\* C3: a detection is labelled 'unknown' only when no unclaimed, non-excluded
\* gallery entry remains; whenever one remains the detection gets a gallery
\* label, whatever the similarity.
C3_UnknownOnlyWhenNoCandidate ==
  Returned =>
    \A i \in 1..Len(results) :
      /\ results[i].label = "unknown" => UnclaimedBefore(i) = {}
      /\ UnclaimedBefore(i) # {} =>
           /\ bestLabeledDescs[i] \in UnclaimedBefore(i)
           /\ results[i].label = labeledDescriptors[bestLabeledDescs[i]].label

\* C4: every detection, in input order, is assigned the entry of greatest
\* maximum similarity among the entries not excluded and not claimed earlier;
\* for the gallery {A:[a], B:[b]} with a, b orthogonal and detections a then b
\* the results are A and B, each with score 1.
C4_GreedyBestEntry ==
  Returned =>
    /\ \A i \in 1..Len(results) :
         UnclaimedBefore(i) # {} =>
           /\ bestLabeledDescs[i] \in UnclaimedBefore(i)
           /\ results[i].label = labeledDescriptors[bestLabeledDescs[i]].label
           /\ \A k \in UnclaimedBefore(i) :
                EntrySimilarity(descriptors[i], bestLabeledDescs[i])
                  >= EntrySimilarity(descriptors[i], k)
    /\ \A a, b \in Embeddings :
         ( /\ computeCosineSimilarity(a, b) = 0
           /\ excludedLabels = {}
           /\ labeledDescriptors = << [label |-> "A", descriptors |-> <<a>>],
                                      [label |-> "B", descriptors |-> <<b>>] >>
           /\ descriptors = <<a, b>> )
         => /\ results[1].label = "A" /\ results[1].score = 1
            /\ results[2].label = "B" /\ results[2].score = 1

\* C5: no label of the usedLabels set passed in is assigned to a detection.
C5_ExcludedNeverAssigned ==
  Returned =>
    \A i \in 1..Len(results) : results[i].label \notin excludedLabels

\* an excluded entry holds the very embedding of a detection, and another
\* entry was assigned instead
C5_Witness ==
  /\ Returned
  /\ \E k \in 1..Len(labeledDescriptors) :
       /\ labeledDescriptors[k].label \in excludedLabels
       /\ Len(descriptors) > 0
       /\ descriptors[1] \in Range(labeledDescriptors[k].descriptors)
  /\ \E i \in 1..Len(results) : results[i].label # "unknown"

----------------------------------------------------------------------------
(* Properties of detection fusion (SpecFusion, SpecSelf) *)

Done == darPc = "done"

\* everything the passes delivered for the frame
Arrived == stage1Detections \o stage2Detections \o manualDetections

Overlap(d, e, threshold) == IoUExceeds(getIoU(d.box, e.box), threshold)

SameContent(s, t) == Len(s) = Len(t) /\ Range(s) = Range(t)

\* no two detections of the list overlap above 0.3 or above the threshold
NoOverlapIn(list, threshold) ==
  \A i, j \in 1..Len(list) :
    i # j => /\ ~Overlap(list[i], list[j], MergeOverlap)
             /\ ~Overlap(list[i], list[j], threshold)

\* C7 as stated: fusing any list with itself gives back the list.
C7_SelfFusionIsIdentity ==
  selfPc = "done" => SameContent(selfFused, selfList)

\* C7: fusing a list with itself gives back a list equal in count and
\* content, provided no two of its detections overlap above 0.3 or above
\* iouThreshold.
C7_SelfFusionOfDistinctFaces ==
  (selfPc = "done" /\ NoOverlapIn(selfList, selfThreshold)) =>
    SameContent(selfFused, selfList)

C7_Witness ==
  /\ selfPc = "done"
  /\ Len(selfList) = 2
  /\ NoOverlapIn(selfList, selfThreshold)
  /\ Len(selfFused) = 2

\* C8: no two detections returned by removeDuplicateDetections overlap above
\* iouThreshold.
C8_NoDuplicateFaces ==
  Done =>
    \A i, j \in 1..Len(allDetections) :
      i # j => ~Overlap(allDetections[i], allDetections[j], iouThreshold)

\* C9: every manual detection passed to detectAndRecognize is in the
\* returned list.
C9_ManualDetectionsKept ==
  Done => Range(manualDetections) \subseteq Range(allDetections)

----------------------------------------------------------------------------
(* Properties of getIoU (SpecIoU) *)

InteriorsOverlap(a, b) ==
  /\ Max(a.x, b.x) < Min(a.x + a.width, b.x + b.width)
  /\ Max(a.y, b.y) < Min(a.y + a.height, b.y + b.height)

----------------------------------------------------------------------------
(* Scores and dimensionality (SpecMatch) *)

ReturnedOne == matchPc = "returnedOne"

\* C12: every score returned by findBestMatchesForFrame and by findBestMatch
\* is a cosine similarity, hence lies in [-1, 1] also for embeddings that are
\* not unit-normalized.
C12_ScoresAreCosines ==
  /\ Returned => \A i \in 1..Len(results) : results[i].score \in -1..1
  /\ ReturnedOne => bestMatch.score \in -1..1

\* entry k holds a reference embedding whose length differs from descriptor's
LengthMismatch(descriptor, k) ==
  \E ref \in Range(labeledDescriptors[k].descriptors) : Len(ref) # Len(descriptor)

\* C13: a call that compares a detection embedding with a reference embedding
\* of another length fails with an error; it does not return a result.
C13_LengthMismatchFails ==
  /\ Returned =>
       \A i \in 1..Len(descriptors) :
         \A k \in UnclaimedBefore(i) : ~LengthMismatch(descriptors[i], k)
  /\ ReturnedOne =>
       \A k \in 1..Len(labeledDescriptors) : ~LengthMismatch(queryDescriptor, k)

----------------------------------------------------------------------------
(* Properties of the Temporal Aggregator (SpecAgg) *)

Reported == aggPc = "reported"

VerdictOf(label) == CHOOSE v \in verdicts : v.label = label

FramesWith(label) == { k \in 1..Len(window) : label \in window[k] }

\* C14: a label is reported present exactly when observedFrameCount /
\* windowFrameCount >= T; with window size 5 and T = 0.6, a label matched in 4
\* of 5 frames is present and a label matched in 1 of 5 frames is not; an
\* empty window yields an empty verdict set.
C14_PresentIffRatioAtLeastT ==
  Reported =>
    /\ Len(window) = 0 => verdicts = {}
    /\ Len(window) > 0 =>
         \A label \in Names :
           /\ \E v \in verdicts : v.label = label
           /\ VerdictOf(label).present <=>
                (Cardinality(FramesWith(label)) * presenceThreshold[2]
                   >= presenceThreshold[1] * Len(window))
           /\ (presenceThreshold = <<3, 5>> /\ Len(window) = 5) =>
                /\ Cardinality(FramesWith(label)) = 4 => VerdictOf(label).present
                /\ Cardinality(FramesWith(label)) = 1 => ~VerdictOf(label).present

\* a full window in which A is matched in exactly 3 of 5 frames (the ratio
\* equals T) and B in 1 of 5
C14_Witness ==
  /\ Reported
  /\ presenceThreshold = <<3, 5>>
  /\ Len(window) = 5
  /\ Cardinality(FramesWith("A")) = 3
  /\ Cardinality(FramesWith("B")) = 1
  /\ VerdictOf("A").present
  /\ ~VerdictOf("B").present

\* the last n elements of a sequence
LastN(s, n) ==
  IF Len(s) <= n THEN s ELSE SubSeq(s, Len(s) - n + 1, Len(s))

\* C15: the window holds at most N frames, namely the most recently pushed
\* ones in push order; a verdict depends on these frames only, so an evicted
\* frame has no influence on it.
C15_WindowIsLastNFrames ==
  /\ Len(window) <= WindowSize
  /\ window = LastN(pushedFrames, WindowSize)
  /\ Reported =>
       verdicts = ComputeVerdictsOf(LastN(pushedFrames, WindowSize), presenceThreshold)

\* a sixth frame was pushed; the evicted first frame was the only one with A
C15_Witness ==
  /\ Reported
  /\ Len(pushedFrames) = WindowSize + 1
  /\ "A" \in pushedFrames[1]
  /\ \A k \in 2..Len(pushedFrames) : "A" \notin pushedFrames[k]
  /\ VerdictOf("A").observedFrameCount = 0

----------------------------------------------------------------------------
(* The gallery as seen and as left by a matching pass *)

\* C16: whatever updateFaceMatcher calls are interleaved with the awaits of
\* detectAndRecognize, findBestMatchesForFrame reads the complete gallery of
\* the last roster given before the read (the empty gallery if there was none
\* or window.faceapi is missing), never a part of one.
C16_GalleryReadIsOneWholeRoster ==
  galleryRead = IF faceapi THEN GalleryOf(rosterAtRead) ELSE <<>>

\* a roster of two students replaced another roster while detectAndRecognize
\* was suspended, and the matching pass has read it
C16_Witness ==
  /\ concPc = "done"
  /\ updatedWhileSuspended
  /\ Len(galleryRead) = 2
  /\ Len(concMatches) = 2
  /\ galleryRead[1].label # galleryRead[2].label

----------------------------------------------------------------------------
(* Properties of loadModels (SpecLoad) *)

\* the first n sources, in their listed order
FirstSources(n) == [k \in 1..n |-> k]

\* isModelsLoaded is set in this step by a call whose source has just loaded
SetBySourceLoaded ==
  \E c \in Callers : loadPc[c] = "loading" /\ loadPc'[c] = "returned"

\* the sources are tried in listed order, one after the failure of the other;
\* a call that fails leaves the flag alone and has tried every source (or
\* found no face-api); a call made with the flag set attempts no load
LoadStepsInOrder ==
  \A c \in Callers :
    /\ tried'[c] # tried[c] =>
         \/ tried'[c] = <<>>
         \/ /\ tried'[c] = FirstSources(Len(tried[c]) + 1)
            /\ tried[c] = FirstSources(Len(tried[c]))
    /\ (loadPc[c] = "loading" /\ loadPc'[c] = "returned") =>
         isModelsLoaded' /\ tried'[c] = tried[c]
    /\ (loadPc[c] # "failed" /\ loadPc'[c] = "failed") =>
         /\ isModelsLoaded' = isModelsLoaded
         /\ faceapi => tried[c] = FirstSources(Len(MODEL_URLS))
         /\ ~faceapi => tried[c] = <<>>
    /\ (loadPc[c] = "idle" /\ loadPc'[c] # "idle" /\ isModelsLoaded) =>
         loadPc'[c] = "returned" /\ tried'[c] = <<>>

----------------------------------------------------------------------------
(* Properties of the storage service (SpecStore) *)

\* a load finds nothing it can use: no item, or data that cannot be parsed
NothingUsableStored == storedItem.kind # "json"

AllFinite(roster) ==
  \A k \in 1..Len(roster) :
    \A d \in 1..Len(roster[k].descriptors) :
      \A i \in 1..Len(roster[k].descriptors[d].elements) :
        roster[k].descriptors[d].elements[i].kind = "finite"

----------------------------------------------------------------------------
(* Ties in mergeDetections (SpecFusion) *)

\* the stage 2 detection e ties with the stage 1 detection that the inner
\* loop of mergeDetections finds for it
TiesWithStage1(e) ==
  LET k == FirstOverlapping1(stage1Detections, e, 1)
  IN k > 0 /\ stage1Detections[k].score = e.score

\* one detection per pass, no manual ones, overlapping above 0.3 with equal
\* confidence
OneTiePerPass ==
  /\ Done
  /\ manualDetections = <<>>
  /\ Len(stage1Detections) = 1
  /\ Len(stage2Detections) = 1
  /\ Overlap(stage1Detections[1], stage2Detections[1], MergeOverlap)
  /\ stage1Detections[1].score = stage2Detections[1].score

----------------------------------------------------------------------------
(* mergeDetections against the fold of the specification (SpecFusion) *)

RECURSIVE FirstOverlappingInAccumulator(_, _, _)
\* first accumulator entry with iou(existing, candidate) > 0.3
FirstOverlappingInAccumulator(accumulator, candidate, j) ==
  IF j > Len(accumulator) THEN 0
  ELSE IF Overlap(accumulator[j], candidate, MergeOverlap) THEN j
  ELSE FirstOverlappingInAccumulator(accumulator, candidate, j + 1)

RECURSIVE SpecifiedFold(_, _, _)
\* replace when strictly higher, drop when found and not higher, else append
SpecifiedFold(incoming, i, accumulator) ==
  IF i > Len(incoming) THEN accumulator
  ELSE
    LET candidate == incoming[i]
        j == FirstOverlappingInAccumulator(accumulator, candidate, 1)
    IN SpecifiedFold(incoming, i + 1,
         IF j = 0 THEN Append(accumulator, candidate)
         ELSE IF candidate.score > accumulator[j].score
              THEN [accumulator EXCEPT ![j] = candidate]
              ELSE accumulator)

\* C21: for every pair of lists mergeDetections returns what the specified
\* fold returns, every candidate being compared against the current
\* accumulator.
C21_MergeEqualsSpecifiedFold ==
  Done =>
    mergeDetections(stage1Detections, stage2Detections)
      = SpecifiedFold(stage2Detections, 1, stage1Detections)

----------------------------------------------------------------------------
(* Ties between gallery entries (SpecMatch) *)

\* every reference embedding of the gallery is at least as long as descriptor,
\* so that every similarity is a number
Comparable(descriptor) ==
  \A k \in 1..Len(labeledDescriptors) :
    \A ref \in Range(labeledDescriptors[k].descriptors) : Len(ref) >= Len(descriptor)

\* the entries of a candidate set that reach its maximum similarity
BestEntries(descriptor, candidates) ==
  { k \in candidates :
      \A n \in candidates : EntrySimilarity(descriptor, k) >= EntrySimilarity(descriptor, n) }

SetMin(S) == CHOOSE m \in S : \A n \in S : m <= n

\* gallery entries with at least one reference embedding
EntriesWithDescriptors ==
  { k \in 1..Len(labeledDescriptors) : Len(labeledDescriptors[k].descriptors) > 0 }

\* C22: when several candidate entries reach the same maximum similarity for a
\* detection, the first of them in gallery order is chosen.
C22_FirstOfTiedEntriesWins ==
  /\ Returned =>
       \A i \in 1..Len(results) :
         (Comparable(descriptors[i])
            /\ Cardinality(BestEntries(descriptors[i], UnclaimedBefore(i))) > 1) =>
           bestLabeledDescs[i] = SetMin(BestEntries(descriptors[i], UnclaimedBefore(i)))
  /\ ( /\ ReturnedOne
       /\ Comparable(queryDescriptor)
       /\ Cardinality(BestEntries(queryDescriptor, EntriesWithDescriptors)) > 1 ) =>
         bestMatch.label =
           labeledDescriptors[SetMin(BestEntries(queryDescriptor, EntriesWithDescriptors))].label

----------------------------------------------------------------------------
(* The threshold of mask mode (SpecMask) *)

Drawn == maskPc = "drawn"

\* C23: in mask mode the threshold applied to a detection is the configured
\* threshold lowered by 0.1 and floored at 0.4, and it is never higher than
\* the configured threshold.
C23_MaskThresholdLoweredNeverRaised ==
  (Drawn /\ maskMode) =>
    /\ effectiveThreshold = Max(40, similarityThreshold - 10)
    /\ effectiveThreshold <= similarityThreshold

----------------------------------------------------------------------------
(* Shape of the result of findBestMatchesForFrame (SpecMatch) *)

\* C24: findBestMatchesForFrame returns exactly one result for each input
\* embedding, in input order: the i-th result carries the i-th input
\* descriptor.
C24_OneResultPerDescriptorInOrder ==
  Returned =>
    /\ Len(results) = Len(descriptors)
    /\ \A i \in 1..Len(descriptors) : results[i].descriptor = descriptors[i]

\* two different faces, the first left unmatched and the second matched
C24_Witness ==
  /\ Returned
  /\ Len(descriptors) = 2
  /\ descriptors[1] # descriptors[2]
  /\ results[1].label = "unknown"
  /\ results[2].label # "unknown"

\* the labels the call assigned
AssignedLabels == { results[i].label : i \in 1..Len(results) } \ {"unknown"}

\* inputs of the call that follows: the same faces again, or any one face
SecondCalls == {descriptors} \cup { <<d>> : d \in QueryEmbeddings }

\* the labels a second call with the set left by the first one would assign
SecondCallLabels(descs) ==
  { r.label : r \in Range(findBestMatchesForFrame(descs, usedLabels,
                                                  labeledDescriptors).results) }
    \ {"unknown"}

\* C25: findBestMatchesForFrame changes the caller's usedLabels only by adding
\* the labels it assigns: after the call the set holds its initial content
\* and the labels of the matched results, so a second call with the same set
\* assigns none of the labels the first call claimed.
C25_UsedLabelsGrowByAssignedLabels ==
  Returned =>
    /\ usedLabels = excludedLabels \cup AssignedLabels
    /\ \A descs \in SecondCalls :
         SecondCallLabels(descs) \cap (excludedLabels \cup AssignedLabels) = {}

\* the caller's set was not empty, the call added a label to it, and a
\* second call with the caller's original set would assign that label again
C25_Witness ==
  /\ Returned
  /\ excludedLabels # {}
  /\ AssignedLabels # {}
  /\ AssignedLabels \cap excludedLabels = {}
  /\ \E r \in Range(findBestMatchesForFrame(descriptors, excludedLabels,
                                            labeledDescriptors).results) :
       r.label \in AssignedLabels

----------------------------------------------------------------------------
(* removeDuplicateDetections selects from its input (SpecFusion) *)

\* the list detectAndRecognize hands to removeDuplicateDetections
DedupInput == mergeDetections(stage1Detections, stage2Detections) \o manualDetections

ScoresOf(list) == { list[k].score : k \in 1..Len(list) }

\* C26: removeDuplicateDetections only selects from its input: every output
\* detection is an element of the input, the output is not longer than the
\* input, an empty input gives an empty output, and the highest confidence
\* present in the input is present in the output.
C26_DedupSelectsFromInput ==
  Done =>
    /\ allDetections = removeDuplicateDetections(DedupInput, iouThreshold)
    /\ Range(allDetections) \subseteq Range(DedupInput)
    /\ Len(allDetections) <= Len(DedupInput)
    /\ (DedupInput = <<>> => allDetections = <<>>)
    /\ (DedupInput # <<>> => SetMax(ScoresOf(DedupInput)) \in ScoresOf(allDetections))

\* a detection of lower confidence came first and was replaced by the
\* overlapping detection of the highest confidence, which came later
C26_Witness ==
  /\ Done
  /\ Len(allDetections) < Len(DedupInput)
  /\ \E k \in 2..Len(DedupInput) :
       /\ DedupInput[k].score = SetMax(ScoresOf(DedupInput))
       /\ DedupInput[1].score < DedupInput[k].score
       /\ Overlap(DedupInput[1], DedupInput[k], iouThreshold)
       /\ DedupInput[1] \notin Range(allDetections)

----------------------------------------------------------------------------
(* The loaded flag of InsightFaceService (SpecInsight) *)

SessionsPresent == detectionSession # 0 /\ recognitionSession # 0

InsightFailed(c) == insightPc[c] = "rejected"

\* C27 as stated: isModelsLoaded = true implies that detectionSession and
\* recognitionSession are both non-null, and isModelsLoaded is false after a
\* loadModels call that failed at any step, also when calls overlap.
C27_FailedCallLeavesFlagFalse ==
  /\ insightLoaded => SessionsPresent
  /\ \A c \in Callers : InsightFailed(c) => ~insightLoaded

\* C27: isModelsLoaded = true implies that detectionSession and
\* recognitionSession are both non-null; a loadModels call that fails never
\* assigns the flag, so after a failed call the flag is true only if another,
\* overlapping call has succeeded.
C27_FailedCallNeverSetsFlag ==
  /\ insightLoaded => SessionsPresent
  /\ insightLoaded <=> loadedBy # 0
  /\ \A c \in Callers : InsightFailed(c) => loadedBy # c

\* one call has failed at the recognition model after replacing the
\* detection session, while the overlapping call has loaded both models
C27_Witness ==
  \E c, d \in Callers :
    /\ c # d
    /\ InsightFailed(c)
    /\ insightLoaded
    /\ loadedBy = d
    /\ detectionSession = c
    /\ recognitionSession = d

----------------------------------------------------------------------------
(* Outcomes of syncParamsToBackend (SpecSync) *)

\* the step in which a syncParamsToBackend call reaches the end of its
\* finally block
SyncCompletes == syncTimers' = syncTimers + 1

\* C28 as stated: when the backend call fails onChange is not called and
\* syncStatus becomes 'error'; on success onChange is called exactly once
\* with the local parameters; isSyncing is false after every outcome.
C28_OnChangeGetsLocalParams ==
  [][SyncCompletes =>
       /\ ~isSyncing'
       /\ syncPc' = "failed" => (onChangeCalls' = 0 /\ syncStatus' = "error")
       /\ syncPc' = "succeeded" =>
            (onChangeCalls' = 1 /\ onChangeArg' = localParams')]_vars

\* C28: when the backend call fails onChange is not called and syncStatus
\* becomes 'error'; on success onChange is called exactly once, with the
\* local parameters as they were when the sync was started; isSyncing is
\* false after every outcome.
C28_OnChangeGetsSyncedParams ==
  [][SyncCompletes =>
       /\ ~isSyncing'
       /\ syncPc' = "failed" => (onChangeCalls' = 0 /\ syncStatus' = "error")
       /\ syncPc' = "succeeded" =>
            (onChangeCalls' = 1 /\ onChangeArg' = syncedParams')]_vars

\* a sync has succeeded after the local parameters were edited during the
\* backend round trip
C28_Witness ==
  /\ syncPc = "succeeded"
  /\ ~isSyncing
  /\ syncStatus = "success"
  /\ onChangeCalls = 1
  /\ onChangeArg = syncedParams
  /\ localParams # syncedParams

----------------------------------------------------------------------------
(* The stored results of ImageAnalyzer (SpecImage) *)

\* C29: the stored detection results always belong to the most recently
\* submitted image, for every interleaving of uploads, re-detections and
\* backend responses, and detectionsCount always equals the length of
\* detectionResults.
C29_ResultsBelongToLatestImage ==
  /\ detectionResults.length > 0 => detectionResults.image = submitted
  /\ detectionsCount = detectionResults.length

----------------------------------------------------------------------------
(* Ids added by an import (SpecImport) *)

\* C30: handleImport keeps student ids unique for every imported file: it
\* hands to onAddStudent no student whose id is already registered and no
\* two students with the same id, also when the file repeats an id.
C30_ImportKeepsIdsUnique ==
  importPc = "done" =>
    /\ \A k \in 1..Len(addedIds) : addedIds[k] \notin registeredIds
    /\ \A j, k \in 1..Len(addedIds) : j # k => addedIds[j] # addedIds[k]

====
